---- MODULE Spec2Model ----
(***************************************************************************)
(* Gauge-reading scripts of spot-sdk/custom-scripts:                       *)
(*   analog_to_digital.py        calibrate_gauge, get_current_value,       *)
(*                               convert, function_with_timeout            *)
(*   old/analog_to_digital_2.py  detect_needle_angle, angle_to_value       *)
(*   russ_mqtt_one.py            process_image                             *)
(*   motor.py                    capture loop                              *)
(*   app.py                      process_image (one thread per photo)      *)
(*                                                                         *)
(* Numbers.  Pixel coordinates are integers, as the Hough detectors return *)
(* them.  Angles are whole degrees: atan2 is modelled as the true angle    *)
(* rounded to the nearest degree.  A computed reading is an exact rational *)
(* [num, den] with den > 0; Python's round(v, n) yields den = 10^n.        *)
(* Distances are compared through their squares (all are non-negative).    *)
(***************************************************************************)
EXTENDS Integers, Sequences, FiniteSets, TLC

VARIABLES
    fn,         \* Spec: the function of the last call ("none" before any call)
    args,       \* Spec: the inputs of that call
    ret,        \* Spec: what the call returned
    ang,        \* Spec: the needle angle the call computed (-1: it computed none)
    mpc,        \* SpecMotor: position of the motor.py main loop
    iter,       \* SpecMotor: number of convert runs started so far
    fresh,      \* SpecMotor: take_photo_new left a new JPG in the working directory
    cin,        \* SpecMotor: per photo, what imread and the detectors made of it so far
    files,      \* SpecMotor: contents of the files under images/
    cpc,        \* SpecMotor: position of each convert run (thread)
    clocal,     \* SpecMotor: locals of each convert run (img, dial, val)
    nodial,     \* SpecMotor: runs in which calibrate_gauge found no circle
    touched,    \* SpecMotor: the files each convert run has read or written
    written,    \* SpecMotor: the files each convert run has written
    called,     \* SpecMotor: runs in which get_current_value was called
    cres,       \* SpecMotor: result[0] / exception[0] of each run's target()
    waiting,    \* SpecMotor: the run function_with_timeout is joined on (0: none)
    reported,   \* SpecMotor: values printed as "Meter reading"
    timedout,   \* SpecMotor: runs still alive when thread.join(timeout) returned
    gotval,     \* SpecMotor: per run, what get_current_value returned to convert
    spawned,    \* SpecApp: number of process_image threads app.main has started
    tpc,        \* SpecApp: position of each app.process_image thread
    tval,       \* SpecApp: locals of each thread (images, box, value, result_data)
    saved,      \* SpecApp: the images each thread has written under web_assets/processed
    published,  \* SpecApp: messages published on spot/results, in order
    raised,     \* SpecApp: threads that ended by an exception leaving process_image
    stopped,    \* SpecApp: app.main has executed mqtt_client.loop_stop()
    gpc,            \* SpecGui: old/russ_mqtt_one.py is loading ("load") or in its main loop
    mqtt_connected, \* SpecGui: client.connect succeeded when the script was loaded
    workorder_sent, \* SpecGui: the flag of the same name
    notify_label,   \* SpecGui: the text shown in notify_label
    clear_button,   \* SpecGui: state of the "Clear Alert" button
    events,         \* SpecGui: the update_gui ticks and clear_alert presses so far
    spc,            \* SpecSave: position of save_all_photos.main
    dest,           \* SpecSave: the indices N of the files photo_N.jpg in meter-photos
    others,         \* SpecSave: number of other JPG files in meter-photos
    cwd,            \* SpecSave: number of JPG files in the working directory
    next_index,     \* SpecSave: main's variable of the same name
    calls,          \* SpecSave: number of save_new_jpegs_sequentially calls so far
    lastcall        \* SpecSave: the last call: directory before, indices used, result

vars == <<fn, args, ret, ang, mpc, iter, fresh, cin, files, cpc, clocal, nodial, touched,
          written, called, cres, waiting, reported, timedout, gotval, spawned, tpc, tval, saved,
          published, raised, stopped, gpc, mqtt_connected, workorder_sent, notify_label,
          clear_button, events, spc, dest, others, cwd, next_index, calls, lastcall>>

gaugeVars == <<fn, args, ret, ang>>
motorVars == <<mpc, iter, fresh, cin, files, cpc, clocal, nodial, touched, written, called,
               cres, waiting, reported, timedout, gotval>>
appVars   == <<spawned, tpc, tval, saved, published, raised, stopped>>
guiVars   == <<gpc, mqtt_connected, workorder_sent, notify_label, clear_button, events>>
saveVars  == <<spc, dest, others, cwd, next_index, calls, lastcall>>

\* Python's None where a reading, a dial or a result is expected (a record)
None == [none |-> TRUE]
\* Python's None where a line is expected (a tuple)
NoLine == <<>>
\* Python's None where an image is expected
NoImage == "None"

-----------------------------------------------------------------------------
(* Bounds of the model *)

\* Longest list of segments a line detector returns in the model
MaxLines == 2
\* Length in pixels of the synthetic needle drawn at a known angle
NeedleLen == 120
\* Degrees on each side of the 0/360 seam over which continuity is checked
SeamWidth == 10
\* Number of convert runs the motor.py loop starts
MaxRuns == 2
\* Number of app.process_image threads
MaxThreads == 2
\* Number of update_gui ticks and clear_alert presses of old/russ_mqtt_one.py
MaxTicks == 3
\* Indices 0..MaxDest-1 may be taken in meter-photos when save_all_photos starts
MaxDest == 3
\* Number of iterations of the loop of save_all_photos.main
MaxCalls == 3
\* Longest list of mask contours the YOLO model returns in the model
MaxContours == 2
\* Largest number of circles the circle search returns in the model
MaxCircles == 2

-----------------------------------------------------------------------------
(* Arithmetic helpers *)

Abs(n) == IF n < 0 THEN 0 - n ELSE n

Pow10(n) == IF n = 0 THEN 1 ELSE IF n = 1 THEN 10 ELSE 100

\* Python round(num/den, places), as a count of 10^-places units; den > 0.
\* Ties go to the even neighbour.
PyRound(num, den, places) ==
    LET n == num * Pow10(places)
        q == n \div den
        rem == n - q * den
    IN  IF 2 * rem < den THEN q
        ELSE IF 2 * rem > den THEN q + 1
        ELSE IF q % 2 = 0 THEN q ELSE q + 1

\* sin(d degrees) * 10^6 for d in 0..90
SinTable ==
    <<0, 17452, 34899, 52336, 69756, 87156, 104528, 121869, 139173, 156434,
      173648, 190809, 207912, 224951, 241922, 258819, 275637, 292372, 309017,
      325568, 342020, 358368, 374607, 390731, 406737, 422618, 438371, 453990,
      469472, 484810, 500000, 515038, 529919, 544639, 559193, 573576, 587785,
      601815, 615661, 629320, 642788, 656059, 669131, 681998, 694658, 707107,
      719340, 731354, 743145, 754710, 766044, 777146, 788011, 798636, 809017,
      819152, 829038, 838671, 848048, 857167, 866025, 874620, 882948, 891007,
      898794, 906308, 913545, 920505, 927184, 933580, 939693, 945519, 951057,
      956305, 961262, 965926, 970296, 974370, 978148, 981627, 984808, 987688,
      990268, 992546, 994522, 996195, 997564, 998630, 999391, 999848, 1000000>>

Sin(d) ==
    LET e == d % 360
    IN  IF e <= 90 THEN SinTable[e + 1]
        ELSE IF e <= 180 THEN SinTable[180 - e + 1]
        ELSE IF e <= 270 THEN 0 - SinTable[e - 180 + 1]
        ELSE 0 - SinTable[360 - e + 1]

Cos(d) == Sin(d + 90)

\* atan of q/p in the first octant (0 <= q <= p, p > 0), to the nearest degree:
\* the direction a of 0..45 whose unit vector is closest to (p, q).
AtanOctant(p, q) ==
    CHOOSE a \in 0..45 :
        /\ p * Cos(a) + q * Sin(a) >= p * Cos(a + 1) + q * Sin(a + 1)
        /\ p * Cos(a) + q * Sin(a) >= p * Cos(a - 1) + q * Sin(a - 1)

\* degrees(atan2(dy, dx)) to the nearest degree; atan2(0, 0) = 0
Atan2Deg(dy, dx) ==
    IF dx = 0 /\ dy = 0 THEN 0
    ELSE LET ax == Abs(dx)
             ay == Abs(dy)
             a  == IF ay <= ax THEN AtanOctant(ax, ay) ELSE 90 - AtanOctant(ay, ax)
         IN  IF dx >= 0 /\ dy >= 0 THEN a
             ELSE IF dx < 0 /\ dy >= 0 THEN 180 - a
             ELSE IF dx < 0 THEN a - 180
             ELSE 0 - a

\* squared Euclidean distance of (x1, y1) and (x2, y2)
dist_2_pts_sq(x1, y1, x2, y2) == (x2 - x1) * (x2 - x1) + (y2 - y1) * (y2 - y1)

\* Within98 with <= in place of <: a point exactly 0.98 r away passes
Within98_inclusive(dsq, r) == r > 0 /\ 2500 * dsq <= 2401 * r * r

\* sqrt(dsq) < 0.98 * r
Within98(dsq, r) == r > 0 /\ 2500 * dsq < 2401 * r * r

\* Over40 with >= in place of >: a line of exactly 0.4 r passes
Over40_inclusive(lsq, r) == r < 0 \/ 25 * lsq >= 4 * r * r

\* sqrt(lsq) > 0.4 * r
Over40(lsq, r) == r < 0 \/ 25 * lsq > 4 * r * r

-----------------------------------------------------------------------------
(* analog_to_digital.py: function_with_timeout *)

\* result = [None], exception = [None] of function_with_timeout
NoResult == [result |-> None, exception |-> None]

\* Lines 29-33: what target() leaves in result[0] and exception[0] once func
\* has ended.  func returned a value, raised an Exception, or ended by a
\* BaseException that "except Exception" does not catch (SystemExit), which
\* ends the thread with nothing stored.
target(func) ==
    IF func.kind = "returns" THEN [result |-> func.value, exception |-> None]
    ELSE IF func.kind = "raises" THEN [result |-> None, exception |-> [exc |-> "Exception"]]
    ELSE NoResult

\* function_with_timeout handing the stored exception on to its caller
function_with_timeout_reraising(alive, res) ==
    IF alive THEN None
    ELSE IF res.exception # None THEN [raised |-> res.exception]
    ELSE res.result

\* function_with_timeout lines 40-48: what it returns after thread.join(timeout)
function_with_timeout(alive, res) ==
    IF alive THEN None
    ELSE IF res.exception # None THEN None
    ELSE res.result

-----------------------------------------------------------------------------
(* analog_to_digital.py: the needle reading *)

\* HoughCircles returns floating-point triples (x, y, r); a detected circle is
\* given in tenths of a pixel.

\* The sum of field f over the first b circles (the loop of lines 55-58)
RECURSIVE circle_sum(_, _, _)
circle_sum(circles, b, f) ==
    IF b = 0 THEN 0 ELSE circle_sum(circles, b - 1, f) + circles[b][f]

\* avg_circles giving the first circle instead of the average
avg_circles_first_only(circles, b) ==
    [x |-> circles[1].x \div 10, y |-> circles[1].y \div 10, r |-> circles[1].r \div 10]

\* avg_circles lines 51-62: int(sum / b) of each of x, y and r, in whole
\* pixels (the values are not negative, so int() rounds down)
avg_circles(circles, b) ==
    [x |-> circle_sum(circles, b, "x") \div (10 * b),
     y |-> circle_sum(circles, b, "y") \div (10 * b),
     r |-> circle_sum(circles, b, "r") \div (10 * b)]

\* calibrate_gauge's hardcoded calibration, returned with the dial it found
Calibration == [min_angle |-> 45, max_angle |-> 315, min_value |-> 0, max_value |-> 120]

\* Lines 139-146: the detected lines with both endpoints inside 98% of the radius
candidate_lines(lines, x, y, r) ==
    SelectSeq(lines, LAMBDA l :
        /\ Within98(dist_2_pts_sq(x, y, l[1], l[2]), r)
        /\ Within98(dist_2_pts_sq(x, y, l[3], l[4]), r))

\* One pass of the loop of lines 155-159 over what is left of the candidates
RECURSIVE longest_from(_, _, _, _)
longest_from(cands, r, longest, max_sq) ==
    IF cands = <<>> THEN longest
    ELSE LET l == Head(cands)
             lsq == dist_2_pts_sq(l[1], l[2], l[3], l[4])
         IN  IF lsq > max_sq /\ Over40(lsq, r)
             THEN longest_from(Tail(cands), r, l, lsq)
             ELSE longest_from(Tail(cands), r, longest, max_sq)

\* longest_line without either length test: the first candidate
longest_line_first_candidate(cands, r) == Head(cands)

\* longest_line going through the candidates from the last to the first
longest_line_last_first(cands, r) ==
    longest_from([i \in 1..Len(cands) |-> cands[Len(cands) + 1 - i]], r, NoLine, 0)

\* Lines 153-159: longest_line = None, max_length = 0, then the loop
longest_line(cands, r) == longest_from(cands, r, NoLine, 0)

\* far_vector without the vertical flip (y_angle = y1 - y)
far_vector_unflipped(l, x, y) ==
    IF dist_2_pts_sq(x, y, l[1], l[2]) > dist_2_pts_sq(x, y, l[3], l[4])
    THEN <<l[1] - x, l[2] - y>>
    ELSE <<l[3] - x, l[4] - y>>

\* Lines 171-176: (x_angle, y_angle) from the endpoint farther from the centre
far_vector(l, x, y) ==
    IF dist_2_pts_sq(x, y, l[1], l[2]) > dist_2_pts_sq(x, y, l[3], l[4])
    THEN <<l[1] - x, y - l[2]>>
    ELSE <<l[3] - x, y - l[4]>>

\* Lines 178-180
final_angle(v) == (270 - Atan2Deg(v[2], v[1])) % 360

\* scale_value with old_range taken as max_angle alone
scale_value_wrong_range(fa, min_angle, max_angle, min_value, max_value) ==
    [num |-> (fa - min_angle) * (max_value - min_value) + min_value * max_angle,
     den |-> max_angle]

\* Lines 182-184
scale_value(fa, min_angle, max_angle, min_value, max_value) ==
    LET old_range == max_angle - min_angle
        new_range == max_value - min_value
    IN  [num |-> (fa - min_angle) * new_range + min_value * old_range,
         den |-> old_range]

\* Lines 133-163: the needle get_current_value settles on, NoLine on each of
\* its three "return None"; lines = <<>> stands for HoughLinesP returning None
selected_needle(lines, x, y, r) ==
    IF lines = <<>> THEN NoLine
    ELSE LET cands == candidate_lines(lines, x, y, r)
         IN  IF cands = <<>> THEN NoLine ELSE longest_line(cands, r)

get_current_value(lines, min_angle, max_angle, min_value, max_value, x, y, r) ==
    LET needle == selected_needle(lines, x, y, r)
    IN  IF needle = NoLine THEN None
        ELSE scale_value(final_angle(far_vector(needle, x, y)),
                         min_angle, max_angle, min_value, max_value)

-----------------------------------------------------------------------------
(* old/analog_to_digital_2.py *)

\* Lines 26-35: the longest line with an endpoint within 20% of the radius
RECURSIVE needle_from(_, _, _, _, _, _)
needle_from(lines, x, y, r, needle, max_sq) ==
    IF lines = <<>> THEN needle
    ELSE LET l == Head(lines)
             lsq == dist_2_pts_sq(l[1], l[2], l[3], l[4])
             d1 == dist_2_pts_sq(l[1], l[2], x, y)
             d2 == dist_2_pts_sq(l[3], l[4], x, y)
             dsq == IF d1 < d2 THEN d1 ELSE d2
         IN  IF lsq > max_sq /\ 25 * dsq < r * r
             THEN needle_from(Tail(lines), x, y, r, l, lsq)
             ELSE needle_from(Tail(lines), x, y, r, needle, max_sq)

\* needle_vector_2 taken from the endpoint nearer the centre
needle_vector_2_nearer(l, x, y) ==
    IF dist_2_pts_sq(l[3], l[4], x, y) > dist_2_pts_sq(l[1], l[2], x, y)
    THEN <<l[1] - x, y - l[2]>>
    ELSE <<l[3] - x, y - l[4]>>

\* Lines 40-46
needle_vector_2(l, x, y) ==
    IF dist_2_pts_sq(l[3], l[4], x, y) > dist_2_pts_sq(l[1], l[2], x, y)
    THEN <<l[3] - x, y - l[4]>>
    ELSE <<l[1] - x, y - l[2]>>

\* normalize_angle_2 without line 49: the angle as atan2 gives it
normalize_angle_2_raw(v) == Atan2Deg(v[2], v[1])

\* Lines 48-49
normalize_angle_2(v) == (Atan2Deg(v[2], v[1]) + 360) % 360

\* detect_needle_angle; dial = None stands for HoughCircles returning None,
\* lines = <<>> for HoughLinesP returning None
detect_needle_angle(dial, lines) ==
    IF dial = None THEN [raised |-> "ValueError"]
    ELSE IF lines = <<>> THEN [raised |-> "ValueError"]
    ELSE LET needle == needle_from(lines, dial.x, dial.y, dial.r, NoLine, 0)
         IN  IF needle = NoLine THEN [raised |-> "ValueError"]
             ELSE [angle |-> normalize_angle_2(needle_vector_2(needle, dial.x, dial.y))]

\* angle_to_value without the wrap of angles above 225
angle_to_value_no_wrap(angle, min_angle, max_angle, min_value, max_value) ==
    [num |-> PyRound(min_value * 270 + (225 - angle) * (max_value - min_value), 270, 1),
     den |-> 10]

\* angle_to_value, rounded to one decimal
angle_to_value(angle, min_angle, max_angle, min_value, max_value) ==
    LET a == IF angle > 225 THEN angle - 360 ELSE angle
    IN  [num |-> PyRound(min_value * 270 + (225 - a) * (max_value - min_value), 270, 1),
         den |-> 10]

\* The default arguments of angle_to_value
Defaults2 == [min_angle |-> 225, max_angle |-> 0 - 45, min_value |-> 0, max_value |-> 120]

-----------------------------------------------------------------------------
(* russ_mqtt_one.py *)

image_size == 500

\* Lines 19-23
Meter == [min_angle |-> 225, max_angle |-> 137, min_value |-> 0, max_value |-> 120]

\* Lines 39-40: max() keeps the first of the longest lines
RECURSIVE max_line(_, _)
max_line(lines, best) ==
    IF lines = <<>> THEN best
    ELSE LET l == Head(lines)
         IN  IF dist_2_pts_sq(l[1], l[2], l[3], l[4]) >
                dist_2_pts_sq(best[1], best[2], best[3], best[4])
             THEN max_line(Tail(lines), l)
             ELSE max_line(Tail(lines), best)

\* Lines 45-52: angle_deg of the needle end farther from the image centre
russ_angle_deg(l) ==
    LET cx == image_size \div 2
        cy == image_size \div 2
        d1 == dist_2_pts_sq(l[1], l[2], cx, cy)
        d2 == dist_2_pts_sq(l[3], l[4], cx, cy)
        e  == IF d1 > d2 THEN <<l[1], l[2]>> ELSE <<l[3], l[4]>>
    IN  (90 - Atan2Deg(cy - e[2], e[1] - cx)) % 360

\* clip that leaves the value as it is
clip_missing(v, lo, hi) == v

\* np.clip(val, lo, hi) on a rational
clip(v, lo, hi) ==
    IF v.num < lo * v.den THEN [num |-> lo * v.den, den |-> v.den]
    ELSE IF v.num > hi * v.den THEN [num |-> hi * v.den, den |-> v.den]
    ELSE v

\* Lines 55-62: the mapping of angle_deg to the value, clipped and rounded
russ_value(angle_deg) ==
    LET arc_span == 360 - Meter.min_angle + Meter.max_angle
        span == Meter.max_value - Meter.min_value
        raw == IF angle_deg >= Meter.min_angle
               THEN [num |-> (angle_deg - Meter.min_angle) * span, den |-> arc_span]
               ELSE [num |-> (angle_deg + (360 - Meter.min_angle)) * span, den |-> arc_span]
        val == clip(raw, Meter.min_value, Meter.max_value)
    IN  [num |-> PyRound(val.num, val.den, 2), den |-> 100]

\* process_image: image is NoImage, "corrupt" (cv2.resize or a later call raises)
\* or "ok"; lines = <<>> stands for HoughLinesP returning None.
\* Returns the pair (val, image returned).
russ_process_image(image, lines) ==
    IF image = NoImage THEN [val |-> None, img |-> NoImage]
    ELSE IF image = "corrupt" THEN [val |-> None, img |-> "image"]
    ELSE IF lines = <<>> THEN [val |-> None, img |-> "img"]
    ELSE [val |-> russ_value(russ_angle_deg(max_line(Tail(lines), Head(lines)))),
          img |-> "img"]

-----------------------------------------------------------------------------
(* spot_capture.py *)

\* take_photo lines 19-46.  connect: Spot(...) succeeds ("ok") or raises;
\* shot: take_photo_new returns the path of a new file ("file"), returns None
\* or raises; move: shutil.move succeeds ("ok") or raises; fallback: whether
\* images/latest.jpg exists.  The result is None or the path returned together
\* with the photo the file at that path holds: the one of this call ("new") or
\* one left by an earlier run ("earlier").
take_photo(connect, shot, move, fallback) ==
    IF connect = "ok" /\ shot = "file" /\ move = "ok"
    THEN [path |-> "images/spot_capture_<timestamp>.jpg", photo |-> "new"]
    ELSE IF fallback
         THEN [path |-> "images/latest.jpg", photo |-> "earlier"]
         ELSE None

-----------------------------------------------------------------------------
(* yolo_detector.py *)

\* A mask contour is given by what OpenCV computes of it: area (contourArea),
\* m00 and the centroid cx, cy (moments), and rect = <<x, y, w, h>>
\* (boundingRect).  A box is <<x1, y1, x2, y2>>.

\* Lines 40-45: one pass of the loop over what is left of the contours
RECURSIVE largest_contour_from(_, _, _)
largest_contour_from(contours, largest, max_area) ==
    IF contours = <<>> THEN largest
    ELSE LET c == Head(contours)
         IN  IF c.area > max_area
             THEN largest_contour_from(Tail(contours), c, c.area)
             ELSE largest_contour_from(Tail(contours), largest, max_area)

\* largest_contour with max_area starting below zero: any contour qualifies
largest_contour_any(contours) == largest_contour_from(contours, None, 0 - 1)

\* Lines 38-45: largest_contour = None, max_area = 0, then the loop
largest_contour(contours) == largest_contour_from(contours, None, 0)

\* Lines 55-63: the centre of the contour; the fallback adds half of the last
\* value unpacked into "_", the height, to both coordinates
contour_center(c) ==
    IF c.m00 # 0 THEN <<c.cx, c.cy>>
    ELSE <<c.rect[1] + c.rect[4] \div 2, c.rect[2] + c.rect[4] \div 2>>

\* Lines 66-76: the first box strictly containing the centre, else boundingRect
RECURSIVE correct_box_coords(_, _, _)
correct_box_coords(boxes, ctr, c) ==
    IF boxes = <<>>
    THEN <<c.rect[1], c.rect[2], c.rect[1] + c.rect[3], c.rect[2] + c.rect[4]>>
    ELSE LET b == Head(boxes)
         IN  IF ctr[1] > b[1] /\ ctr[1] < b[3] /\ ctr[2] > b[2] /\ ctr[2] < b[4]
             THEN b
             ELSE correct_box_coords(Tail(boxes), ctr, c)

\* detect_gauge.  readable: cv2.imread returned an image; results: what
\* model(image_path) gave: "raises", "empty" (no result), "no_masks" (masks is
\* None), "zero_masks" (no mask data) or [contours, boxes].  The result is the
\* triple returned, or the exception that leaves the function.
detect_gauge(readable, results) ==
    IF ~readable THEN [annotated |-> NoImage, cropped |-> NoImage, box |-> None]
    ELSE IF results = [kind |-> "raises"] THEN [raised |-> "Exception"]
    ELSE IF results.kind \in {"empty", "no_masks", "zero_masks"}
    THEN [annotated |-> "image", cropped |-> NoImage, box |-> None]
    ELSE LET largest == largest_contour(results.contours)
         IN  IF largest = None
             THEN [annotated |-> "image", cropped |-> NoImage, box |-> None]
             ELSE LET b == correct_box_coords(results.boxes, contour_center(largest),
                                              largest)
                  IN  [annotated |-> "overlay", cropped |-> "crop",
                       box |-> [x |-> b[1], y |-> b[2], w |-> b[3] - b[1],
                                h |-> b[4] - b[2]]]

-----------------------------------------------------------------------------
(* Inputs: what the Hough detectors may hand to the functions above *)

Centre == image_size \div 2

\* A segment given by its endpoints relative to the image centre
Seg(a, b, c, d) == <<Centre + a, Centre + b, Centre + c, Centre + d>>

LenSq(l) == dist_2_pts_sq(l[1], l[2], l[3], l[4])

\* Dials the circle search may report (centre of a 500x500 image)
Dials == {[x |-> Centre, y |-> Centre, r |-> 200], [x |-> Centre, y |-> Centre, r |-> 100]}

\* Segments around the thresholds of a dial of radius 200: 0.4 r = 80, 0.98 r = 196
PoolSegs ==
    { Seg(0, 0, 80, 0),      \* exactly 0.4 r long
      Seg(0, 0, 81, 0),      \* just over 0.4 r
      Seg(0, 0, 196, 0),     \* far end exactly at 0.98 r
      Seg(0, 0, 195, 0),     \* far end just inside 0.98 r
      Seg(0, 0, 210, 0),     \* far end outside the dial
      Seg(0, 0, 0, 0 - 100), \* straight up, 100 long
      Seg(0, 0 - 100, 0, 0), \* the same, endpoints swapped
      Seg(0 - 100, 0, 0, 0), \* to the left, 100 long (a tie with the two above)
      Seg(0, 0, 30, 0),      \* a tick mark
      Seg(0 - 90, 0, 90, 0)  \* both ends equally far from the centre
    }

\* A needle drawn from the centre at theta degrees (counter-clockwise from the
\* positive x axis as seen on the image, whose rows grow downward)
NeedleAt(theta, swapped) ==
    LET fx == PyRound(NeedleLen * Cos(theta), 1000000, 0)
        fy == 0 - PyRound(NeedleLen * Sin(theta), 1000000, 0)
    IN  IF swapped THEN Seg(fx, fy, 0, 0) ELSE Seg(0, 0, fx, fy)

Needles == {NeedleAt(t, s) : t \in 0..359, s \in BOOLEAN}

LineInputs ==
    {<<>>} \cup UNION {[1..n -> PoolSegs] : n \in 1..MaxLines}
           \cup {<<l>> : l \in Needles}

\* What HoughLinesP(minLineLength = m) may return
DetectedLines(m) == {ls \in LineInputs : \A i \in 1..Len(ls) : LenSq(ls[i]) >= m * m}

Angles == 0..359

\* Segments and dials beyond what the detectors return, for the selection of
\* lines 138-163 taken alone: points (zero length), a one-pixel line and a
\* needle; radii 200, 1, 0 and a negative one
AnySegs == {Seg(0, 0, 0, 0), Seg(3, 3, 3, 3), Seg(0, 0, 1, 0), Seg(0, 0, 0, 0 - 100)}

AnyDials == {[x |-> Centre, y |-> Centre, r |-> rr] : rr \in {200, 1, 0, 0 - 10}}

AnyLines == UNION {[1..n -> AnySegs] : n \in 1..MaxLines}

\* Circles the circle search may report, in tenths of a pixel: centres at
\* half pixels and at whole pixels, radii with and without a fraction
PoolCircles ==
    { [x |-> 2505, y |-> 2505, r |-> 2000],
      [x |-> 2500, y |-> 2490, r |-> 1877],
      [x |-> 2515, y |-> 2505, r |-> 1234] }

DetectedCircles == UNION {[1..n -> PoolCircles] : n \in 1..MaxCircles}

\* Calibrations angle_to_value may be called with: its defaults and a dial
\* sweeping the upper half circle from 180 down to 0 degrees
Calibrations2 ==
    {Defaults2, [min_angle |-> 180, max_angle |-> 0, min_value |-> 0, max_value |-> 100]}

\* Mask contours: a degenerate one without area, a small and a large one
PoolContours ==
    { [area |-> 0, m00 |-> 0, cx |-> 0, cy |-> 0, rect |-> <<60, 60, 1, 1>>],
      [area |-> 50, m00 |-> 50, cx |-> 10, cy |-> 10, rect |-> <<5, 5, 10, 10>>],
      [area |-> 200, m00 |-> 200, cx |-> 40, cy |-> 40, rect |-> <<30, 30, 20, 20>>] }

\* Boxes of the YOLO result: none, one around the large contour, one elsewhere
PoolBoxes == {<<>>, <<<<28, 28, 52, 52>>>>, <<<<0, 0, 20, 20>>, <<28, 28, 52, 52>>>>}

\* What model(image_path) may give
YoloResults ==
    {[kind |-> k] : k \in {"raises", "empty", "no_masks", "zero_masks"}}
    \cup {[kind |-> "masks", contours |-> cs, boxes |-> bs] :
             cs \in UNION {[1..n -> PoolContours] : n \in 1..MaxContours},
             bs \in PoolBoxes}

\* How a function run under function_with_timeout may end
FuncOutcomes ==
    {[kind |-> "returns", value |-> v] :
        v \in {None, [num |-> 0, den |-> 1], [num |-> 60, den |-> 1]}}
    \cup {[kind |-> "raises", value |-> None], [kind |-> "exits", value |-> None]}

-----------------------------------------------------------------------------
(* Spec: calls of the reading functions *)

\* The image files under images/ that are read back: their content is the
\* number of the photo it was made from (0: no such file).  The files
\* resized-calibration.jpg, resized-needle.jpg and resized-debug-threshold.jpg
\* are only ever written; for them the writes alone are recorded.
ImageFiles == {"latest.jpg", "grey.jpg", "resized.jpg"}

Runs == 1..MaxRuns

\* A photo nothing has looked at yet
Unseen == [known |-> {}, readable |-> FALSE, dial |-> None, lines |-> <<>>]

\* Locals of a convert run before it has assigned any
NoLocals == [img |-> 0, dial |-> None, val |-> None]

\* No image file exists (0), nothing was written to MyFile.txt yet
InitMotorVars ==
    /\ mpc = "start" /\ iter = 0 /\ fresh = FALSE
    /\ cin = [p \in Runs |-> Unseen]
    /\ files = [image |-> [f \in ImageFiles |-> 0], myfile |-> None]
    /\ cpc = [t \in Runs |-> "unborn"]
    /\ clocal = [t \in Runs |-> NoLocals]
    /\ nodial = {}
    /\ touched = [t \in Runs |-> {}]
    /\ written = [t \in Runs |-> {}]
    /\ called = {}
    /\ cres = [t \in Runs |-> NoResult]
    /\ waiting = 0
    /\ reported = <<>>
    /\ timedout = {}
    /\ gotval = [t \in Runs |-> None]

Threads == 1..MaxThreads

\* Locals of a process_image thread before it has assigned any
NoThreadLocals ==
    [annotated |-> NoImage, cropped |-> NoImage, box |-> None,
     lines |-> <<>>, value |-> None, processed |-> NoImage, result_data |-> None]

InitAppVars ==
    /\ spawned = 0
    /\ tpc = [t \in Threads |-> "unborn"]
    /\ tval = [t \in Threads |-> NoThreadLocals]
    /\ saved = [t \in Threads |-> {}]
    /\ published = <<>>
    /\ raised = {}
    /\ stopped = FALSE

\* old/russ_mqtt_one.py before its module code has run; the flag and the
\* widgets as lines 47, 214 and 226 make them
InitGuiVars ==
    /\ gpc = "load"
    /\ mqtt_connected = FALSE
    /\ workorder_sent = FALSE
    /\ notify_label = "System idle..."
    /\ clear_button = "disabled"
    /\ events = <<>>

\* save_all_photos.py before main has run
InitSaveVars ==
    /\ spc = "start"
    /\ dest = {} /\ others = 0 /\ cwd = 0
    /\ next_index = 0 /\ calls = 0
    /\ lastcall = None

InitGaugeVars == fn = "none" /\ args = None /\ ret = None /\ ang = 0 - 1

Init == InitGaugeVars /\ InitMotorVars /\ InitAppVars /\ InitGuiVars /\ InitSaveVars

\* get_current_value as convert calls it: the calibration of calibrate_gauge
Call_get_current_value ==
    /\ fn = "none"
    /\ \E d \in Dials, ls \in DetectedLines(10) :
        LET needle == selected_needle(ls, d.x, d.y, d.r)
        IN  /\ fn' = "get_current_value"
            /\ args' = [dial |-> d, lines |-> ls]
            /\ ret' = get_current_value(ls, Calibration.min_angle, Calibration.max_angle,
                                        Calibration.min_value, Calibration.max_value,
                                        d.x, d.y, d.r)
            /\ ang' = IF needle = NoLine THEN 0 - 1
                      ELSE final_angle(far_vector(needle, d.x, d.y))
    /\ UNCHANGED <<motorVars, appVars, guiVars, saveVars>>

\* angle_to_value(angle) with its default arguments
Call_angle_to_value ==
    /\ fn = "none"
    /\ \E a \in Angles :
        /\ fn' = "angle_to_value"
        /\ args' = [angle |-> a]
        /\ ret' = angle_to_value(a, Defaults2.min_angle, Defaults2.max_angle,
                                 Defaults2.min_value, Defaults2.max_value)
        /\ ang' = a
    /\ UNCHANGED <<motorVars, appVars, guiVars, saveVars>>

\* Lines 138-163 of get_current_value on any list of segments and any dial
Call_selected_needle ==
    /\ fn = "none"
    /\ \E d \in AnyDials, ls \in AnyLines :
        /\ fn' = "selected_needle"
        /\ args' = [dial |-> d, lines |-> ls]
        /\ ret' = [needle |-> selected_needle(ls, d.x, d.y, d.r)]
        /\ ang' = 0 - 1
    /\ UNCHANGED <<motorVars, appVars, guiVars, saveVars>>

\* calibrate_gauge lines 89-90: avg_circles(circles, b) with b the number of
\* circles found
Call_avg_circles ==
    /\ fn = "none"
    /\ \E cs \in DetectedCircles :
        /\ fn' = "avg_circles"
        /\ args' = [circles |-> cs]
        /\ ret' = avg_circles(cs, Len(cs))
        /\ ang' = 0 - 1
    /\ UNCHANGED <<motorVars, appVars, guiVars, saveVars>>

\* angle_to_value(angle, min_angle, max_angle, min_value, max_value) with every
\* argument given
Call_angle_to_value_calibrated ==
    /\ fn = "none"
    /\ \E a \in Angles, cal \in Calibrations2 :
        /\ fn' = "angle_to_value_calibrated"
        /\ args' = [angle |-> a, cal |-> cal]
        /\ ret' = angle_to_value(a, cal.min_angle, cal.max_angle, cal.min_value,
                                 cal.max_value)
        /\ ang' = a
    /\ UNCHANGED <<motorVars, appVars, guiVars, saveVars>>

\* old/analog_to_digital_2.py lines 68-72: detect_needle_angle, then angle_to_value;
\* a ValueError of detect_needle_angle ends the script
Main_analog_to_digital_2 ==
    /\ fn = "none"
    /\ \E d \in Dials \cup {None}, ls \in DetectedLines(50) :
        LET a == detect_needle_angle(d, ls)
        IN  /\ fn' = "analog_to_digital_2"
            /\ args' = [dial |-> d, lines |-> ls]
            /\ ret' = IF a = [raised |-> "ValueError"] THEN a
                      ELSE angle_to_value(a.angle, Defaults2.min_angle, Defaults2.max_angle,
                                          Defaults2.min_value, Defaults2.max_value)
            /\ ang' = IF a = [raised |-> "ValueError"] THEN 0 - 1 ELSE a.angle
    /\ UNCHANGED <<motorVars, appVars, guiVars, saveVars>>

\* russ_mqtt_one.process_image(image)
Call_russ_process_image ==
    /\ fn = "none"
    /\ \E image \in {NoImage, "corrupt", "ok"}, ls \in DetectedLines(80) :
        /\ image # "ok" => ls = <<>>
        /\ fn' = "russ_process_image"
        /\ args' = [image |-> image, lines |-> ls]
        /\ ret' = russ_process_image(image, ls)
        /\ ang' = IF image = "ok" /\ ls # <<>>
                  THEN russ_angle_deg(max_line(Tail(ls), Head(ls))) ELSE 0 - 1
    /\ UNCHANGED <<motorVars, appVars, guiVars, saveVars>>

\* function_with_timeout(func): the thread is started and joined; alive says
\* whether func is still running when thread.join(timeout) returns, and then
\* target() has stored nothing yet
Call_function_with_timeout ==
    /\ fn = "none"
    /\ \E alive \in BOOLEAN, func \in FuncOutcomes :
        /\ fn' = "function_with_timeout"
        /\ args' = [func |-> func, alive |-> alive]
        /\ ret' = function_with_timeout(alive, IF alive THEN NoResult ELSE target(func))
        /\ ang' = 0 - 1
    /\ UNCHANGED <<motorVars, appVars, guiVars, saveVars>>

\* spot_capture.take_photo(spot_creds, images_dir); without a connection no
\* photo is taken, and without a photo nothing is moved
Call_take_photo ==
    /\ fn = "none"
    /\ \E connect \in {"ok", "raises"}, shot \in {"file", "none", "raises", "skipped"},
          move \in {"ok", "raises", "skipped"}, fallback \in BOOLEAN :
        /\ (connect = "ok") <=> (shot # "skipped")
        /\ (shot = "file") <=> (move # "skipped")
        /\ fn' = "take_photo"
        /\ args' = [connect |-> connect, shot |-> shot, move |-> move,
                    fallback |-> fallback]
        /\ ret' = take_photo(connect, shot, move, fallback)
        /\ ang' = 0 - 1
    /\ UNCHANGED <<motorVars, appVars, guiVars, saveVars>>

\* yolo_detector.detect_gauge(image_path, model)
Call_detect_gauge ==
    /\ fn = "none"
    /\ \E readable \in BOOLEAN, results \in YoloResults :
        /\ fn' = "detect_gauge"
        /\ args' = [readable |-> readable, results |-> results]
        /\ ret' = detect_gauge(readable, results)
        /\ ang' = 0 - 1
    /\ UNCHANGED <<motorVars, appVars, guiVars, saveVars>>

\* The caller takes the result; the next call may follow
Return ==
    /\ fn # "none"
    /\ fn' = "none" /\ args' = None /\ ret' = None /\ ang' = 0 - 1
    /\ UNCHANGED <<motorVars, appVars, guiVars, saveVars>>

Next ==
    \/ Call_get_current_value
    \/ Call_selected_needle
    \/ Call_avg_circles
    \/ Call_angle_to_value
    \/ Call_angle_to_value_calibrated
    \/ Main_analog_to_digital_2
    \/ Call_russ_process_image
    \/ Call_function_with_timeout
    \/ Call_take_photo
    \/ Call_detect_gauge
    \/ Return

Spec == Init /\ [][Next]_vars

-----------------------------------------------------------------------------
(* SpecMotor: the motor.py capture loop, function_with_timeout and convert *)

\* What a photo holds: whether cv2.imread can decode it, the dial the circle
\* search finds in it (None: no circle) and the lines the line search finds
\* (<<>>: none, a tick mark, or a needle).  Each is fixed the first time a run
\* looks (known), and every later look finds the same.
PhotoDials == {None, [x |-> Centre, y |-> Centre, r |-> 200]}
PhotoLines == {<<>>, <<Seg(0, 0, 30, 0)>>, <<NeedleAt(90, FALSE)>>}

Readable(p) == IF "readable" \in cin[p].known THEN {cin[p].readable} ELSE BOOLEAN
DialsIn(p) == IF "dial" \in cin[p].known THEN {cin[p].dial} ELSE PhotoDials
LinesIn(p) == IF "lines" \in cin[p].known THEN {cin[p].lines} ELSE PhotoLines

Active(t) == cpc[t] \notin {"unborn", "done"}

\* The run reads or writes file f
Touch(t, f) == touched' = [touched EXCEPT ![t] = @ \cup {f}]
Write(t, f) == written' = [written EXCEPT ![t] = @ \cup {f}]

\* convert always ends with a bare return or by falling off its end
convert_result == None

\* convert going on to get_current_value whatever calibrate_gauge returned
convert_after_calibrate_unchecked(circles) == "read_resized"

\* convert lines 216-219: where convert goes with the x calibrate_gauge returned

convert_after_calibrate(circles) ==
    IF circles = "none" THEN "return" ELSE "read_resized"

\* convert going on to write the reading whatever get_current_value returned
convert_after_value_unchecked(val) == "write_myfile"

\* convert lines 224-226: where convert goes with the val get_current_value
\* returned
convert_after_value(val) ==
    IF val = None THEN "return" ELSE "write_myfile"

\* motor.py lines 19-26: a Spot session is made and a photo taken; the new JPG
\* may or may not appear in the working directory
TakePhoto ==
    /\ mpc = "start" /\ iter < MaxRuns
    /\ \E ok \in BOOLEAN : fresh' = ok
    /\ mpc' = "remove_latest"
    /\ UNCHANGED <<nodial, cin, iter, files, cpc, clocal, touched, written, called, cres, waiting,
                   reported, timedout, gotval, gaugeVars, appVars, guiVars, saveVars>>

\* motor.py lines 28-38: images/latest.jpg is removed; without a new JPG the
\* loop starts over
RemoveLatest ==
    /\ mpc = "remove_latest"
    /\ files' = [files EXCEPT !.image["latest.jpg"] = 0]
    /\ mpc' = IF fresh THEN "move" ELSE "start"
    /\ UNCHANGED <<nodial, iter, fresh, cin, cpc, clocal, touched, written, called, cres,
                   waiting, reported, timedout, gotval, gaugeVars, appVars, guiVars, saveVars>>

\* motor.py lines 41-46: the new JPG becomes images/latest.jpg
MoveRename ==
    /\ mpc = "move"
    /\ files' = [files EXCEPT !.image["latest.jpg"] = iter + 1]
    /\ fresh' = FALSE
    /\ mpc' = "spawn"
    /\ UNCHANGED <<nodial, iter, cin, cpc, clocal, touched, written, called, cres, waiting,
                   reported, timedout, gotval, gaugeVars, appVars, guiVars, saveVars>>

\* function_with_timeout lines 23-37: a daemon thread is started on convert
StartThread ==
    /\ mpc = "spawn"
    /\ iter' = iter + 1
    /\ cpc' = [cpc EXCEPT ![iter + 1] = "read_latest"]
    /\ waiting' = iter + 1
    /\ mpc' = "join"
    /\ UNCHANGED <<nodial, fresh, cin, files, clocal, touched, written, called, cres, reported,
                   timedout, gotval, gaugeVars, appVars, guiVars, saveVars>>

\* function_with_timeout lines 38-48 and motor.py line 52: thread.join(3) ends
\* because the thread finished or because 3 seconds passed; the value is printed
JoinAndReport ==
    /\ mpc = "join"
    /\ reported' = Append(reported,
                          [run |-> waiting,
                           value |-> function_with_timeout(cpc[waiting] # "done",
                                                           cres[waiting])])
    /\ timedout' = IF cpc[waiting] # "done" THEN timedout \cup {waiting} ELSE timedout
    /\ waiting' = 0
    /\ mpc' = "start"
    /\ UNCHANGED <<nodial, iter, fresh, cin, files, cpc, clocal, touched, written, called, cres,
                   gotval, gaugeVars, appVars, guiVars, saveVars>>

\* convert returns (lines 193, 219, 226 or the end) and its locals are gone;
\* target() stores the result
Finish(t) ==
    /\ cpc' = [cpc EXCEPT ![t] = "done"]
    /\ clocal' = [clocal EXCEPT ![t] = NoLocals]
    /\ cres' = [cres EXCEPT ![t] = [result |-> convert_result, exception |-> None]]

\* convert lines 190-193: the image is read; an unreadable or missing file
\* ends the run
C_ReadLatest(t) ==
    /\ cpc[t] = "read_latest"
    /\ Touch(t, "latest.jpg")
    /\ LET p == files.image["latest.jpg"]
       IN  IF p = 0
           THEN Finish(t) /\ UNCHANGED cin
           ELSE \E r \in Readable(p) :
                /\ cin' = [cin EXCEPT ![p].known = @ \cup {"readable"}, ![p].readable = r]
                /\ IF ~r
                   THEN Finish(t)
                   ELSE /\ clocal' = [clocal EXCEPT ![t].img = p]
                        /\ cpc' = [cpc EXCEPT ![t] = "write_grey"]
                        /\ UNCHANGED cres
    /\ UNCHANGED <<mpc, iter, fresh, files, nodial, written, called, waiting,
                   reported, timedout, gotval, gaugeVars, appVars, guiVars, saveVars>>

\* convert lines 195-200: the contrast-enhanced image goes to images/grey.jpg
C_WriteGrey(t) ==
    /\ cpc[t] = "write_grey"
    /\ files' = [files EXCEPT !.image["grey.jpg"] = clocal[t].img]
    /\ Touch(t, "grey.jpg") /\ Write(t, "grey.jpg")
    /\ cpc' = [cpc EXCEPT ![t] = "read_grey"]
    /\ UNCHANGED <<nodial, mpc, iter, fresh, cin, clocal, called, cres, waiting, reported,
                   timedout, gotval, gaugeVars, appVars, guiVars, saveVars>>

\* convert lines 202-203: images/grey.jpg is read back
C_ReadGrey(t) ==
    /\ cpc[t] = "read_grey"
    /\ clocal' = [clocal EXCEPT ![t].img = files.image["grey.jpg"]]
    /\ Touch(t, "grey.jpg")
    /\ cpc' = [cpc EXCEPT ![t] = "write_resized"]
    /\ UNCHANGED <<nodial, mpc, iter, fresh, cin, files, written, called, cres, waiting,
                   reported, timedout, gotval, gaugeVars, appVars, guiVars, saveVars>>

\* convert lines 205-211: the resized image goes to images/resized.jpg
C_WriteResized(t) ==
    /\ cpc[t] = "write_resized"
    /\ files' = [files EXCEPT !.image["resized.jpg"] = clocal[t].img]
    /\ Touch(t, "resized.jpg") /\ Write(t, "resized.jpg")
    /\ cpc' = [cpc EXCEPT ![t] = "find_circles"]
    /\ UNCHANGED <<nodial, mpc, iter, fresh, cin, clocal, called, cres, waiting, reported,
                   timedout, gotval, gaugeVars, appVars, guiVars, saveVars>>

\* convert lines 216-219 with what calibrate_gauge returned: the dial d and
\* the image img it read, or no dial, with which convert returns
AfterCalibrate(t, circles, img, d) ==
    IF convert_after_calibrate(circles) = "return"
    THEN Finish(t)
    ELSE /\ cpc' = [cpc EXCEPT ![t] = convert_after_calibrate(circles)]
         /\ clocal' = [clocal EXCEPT ![t].img = img, ![t].dial = d]
         /\ UNCHANGED cres

\* convert lines 222-226 with the val get_current_value returned: without a
\* reading convert returns
AfterValue(t, val) ==
    IF convert_after_value(val) = "return"
    THEN Finish(t)
    ELSE /\ cpc' = [cpc EXCEPT ![t] = convert_after_value(val)]
         /\ clocal' = [clocal EXCEPT ![t].val = val]
         /\ UNCHANGED cres

\* calibrate_gauge lines 68-90: images/resized.jpg is read and searched for
\* circles; without any, all eight results are None (and convert goes on at
\* line 217)
C_FindCircles(t) ==
    /\ cpc[t] = "find_circles"
    /\ Touch(t, "resized.jpg")
    /\ LET p == files.image["resized.jpg"]
       IN  \E d \in DialsIn(p) :
            /\ cin' = [cin EXCEPT ![p].known = @ \cup {"dial"}, ![p].dial = d]
            /\ IF d = None
               THEN /\ nodial' = nodial \cup {t}
                    /\ AfterCalibrate(t, "none", p, None)
               ELSE /\ clocal' = [clocal EXCEPT ![t].img = p, ![t].dial = d]
                    /\ cpc' = [cpc EXCEPT ![t] = "write_calibration"]
                    /\ UNCHANGED <<cres, nodial>>
    /\ UNCHANGED <<mpc, iter, fresh, files, written, called, waiting,
                   reported, timedout, gotval, gaugeVars, appVars, guiVars, saveVars>>

\* calibrate_gauge lines 92-123: the annotated dial goes to
\* images/resized-calibration.jpg and the dial is returned (convert goes on
\* at line 217)
C_WriteCalibration(t) ==
    /\ cpc[t] = "write_calibration"
    /\ Touch(t, "resized-calibration.jpg") /\ Write(t, "resized-calibration.jpg")
    /\ AfterCalibrate(t, "found", clocal[t].img, clocal[t].dial)
    /\ UNCHANGED <<mpc, iter, fresh, cin, files, nodial, called, waiting, reported,
                   timedout, gotval, gaugeVars, appVars, guiVars, saveVars>>

\* convert line 221: images/resized.jpg is read again
C_ReadResized(t) ==
    /\ cpc[t] = "read_resized"
    /\ clocal' = [clocal EXCEPT ![t].img = files.image["resized.jpg"]]
    /\ Touch(t, "resized.jpg")
    /\ cpc' = [cpc EXCEPT ![t] = "find_lines"]
    /\ UNCHANGED <<nodial, mpc, iter, fresh, cin, files, written, called, cres, waiting,
                   reported, timedout, gotval, gaugeVars, appVars, guiVars, saveVars>>

\* convert lines 222-226 with get_current_value lines 126-163: the lines are
\* searched and the needle chosen; no line at all leaves the threshold image,
\* and no reading ends the run.  With x = None (only if line 217 did not
\* return) 0.98 * r raises a TypeError, which line 233 catches.
C_FindLines(t) ==
    /\ cpc[t] = "find_lines"
    /\ called' = called \cup {t}
    /\ \E ls \in LinesIn(clocal[t].img) :
        LET d == clocal[t].dial
            v == IF d = None THEN None
                 ELSE get_current_value(ls, Calibration.min_angle, Calibration.max_angle,
                                        Calibration.min_value, Calibration.max_value,
                                        d.x, d.y, d.r)
        IN  /\ cin' = [cin EXCEPT ![clocal[t].img].known = @ \cup {"lines"},
                                  ![clocal[t].img].lines = ls]
            /\ gotval' = [gotval EXCEPT ![t] = v]
            /\ IF ls = <<>>
               THEN /\ Touch(t, "resized-debug-threshold.jpg")
                    /\ Write(t, "resized-debug-threshold.jpg")
               ELSE UNCHANGED <<touched, written>>
            /\ IF v = None
               THEN AfterValue(t, v)
               ELSE /\ clocal' = [clocal EXCEPT ![t].val = v]
                    /\ cpc' = [cpc EXCEPT ![t] = "write_needle"]
                    /\ UNCHANGED cres
    /\ UNCHANGED <<mpc, iter, fresh, files, nodial, waiting, reported, timedout,
                   gaugeVars, appVars, guiVars, saveVars>>

\* get_current_value lines 165-186: the needle is drawn into
\* images/resized-needle.jpg and the value returned (convert goes on at
\* line 224)
C_WriteNeedle(t) ==
    /\ cpc[t] = "write_needle"
    /\ Touch(t, "resized-needle.jpg") /\ Write(t, "resized-needle.jpg")
    /\ AfterValue(t, clocal[t].val)
    /\ UNCHANGED <<nodial, mpc, iter, fresh, cin, files, called, waiting,
                   reported, timedout, gotval, gaugeVars, appVars, guiVars, saveVars>>

\* convert lines 228-231: the reading is written to images/MyFile.txt
C_WriteMyFile(t) ==
    /\ cpc[t] = "write_myfile"
    /\ files' = [files EXCEPT !.myfile = clocal[t].val]
    /\ Touch(t, "MyFile.txt") /\ Write(t, "MyFile.txt")
    /\ Finish(t)
    /\ UNCHANGED <<mpc, iter, fresh, cin, nodial, called, waiting, reported,
                   timedout, gotval, gaugeVars, appVars, guiVars, saveVars>>

ConvertStep(t) ==
    \/ C_ReadLatest(t)
    \/ C_WriteGrey(t)
    \/ C_ReadGrey(t)
    \/ C_WriteResized(t)
    \/ C_FindCircles(t)
    \/ C_WriteCalibration(t)
    \/ C_ReadResized(t)
    \/ C_FindLines(t)
    \/ C_WriteNeedle(t)
    \/ C_WriteMyFile(t)

NextMotor ==
    \/ TakePhoto
    \/ RemoveLatest
    \/ MoveRename
    \/ StartThread
    \/ JoinAndReport
    \/ \E t \in Runs : ConvertStep(t)

SpecMotor == Init /\ [][NextMotor]_vars

-----------------------------------------------------------------------------
(* SpecApp: app.py, one process_image thread per photo *)

ALERT_THRESHOLD == 35

\* The value "N/A" of a result without a reading
NA == [na |-> TRUE]

\* What yolo_detector.detect_gauge does with a photo: it raises, it cannot read
\* the file (None, None, None), it finds no gauge (image, None, None) or it
\* returns the overlay, the crop and the box
DetectOutcomes == {"raises", "unreadable", "no_gauge", "gauge"}

\* What the line search of russ_mqtt_one.process_image finds in a crop
CropLines == {<<>>, <<NeedleAt(90, FALSE)>>, <<NeedleAt(200, FALSE)>>, <<NeedleAt(225, FALSE)>>}

\* status_of taking an absent value for a good one
status_of_unread_ok(value) ==
    IF value = None THEN "OK"
    ELSE IF value.num > ALERT_THRESHOLD * value.den THEN "ALERT"
    ELSE "OK"

\* app.process_image lines 101-106
status_of(value) ==
    IF value = None THEN "Could not read value from gauge."
    ELSE IF value.num > ALERT_THRESHOLD * value.den THEN "ALERT"
    ELSE "OK"

\* app.process_image lines 69-115: the result for what the detector returned
\* and, with a gauge, the value read from the crop
result_data_of(t, cropped, box, value) ==
    IF cropped = NoImage \/ box = None
    THEN [thread |-> t, status |-> "Gauge not detected.", value |-> NA,
          crop_image_url |-> FALSE, detection_box |-> None]
    ELSE [thread |-> t, status |-> status_of(value),
          value |-> IF value # None THEN value ELSE NA,
          crop_image_url |-> TRUE, detection_box |-> box]

\* app.main lines 173-177 and 206-210: a thread is started on a photo
A_StartThread ==
    /\ spawned < MaxThreads
    /\ spawned' = spawned + 1
    /\ tpc' = [tpc EXCEPT ![spawned + 1] = "detect"]
    /\ UNCHANGED <<tval, saved, published, raised, stopped, gaugeVars, motorVars, guiVars,
                   saveVars>>

\* app.main lines 184-186 and 220-222 (test mode): every photo has had its
\* thread started, main has slept five seconds, and the finally block stops
\* the MQTT network loop; no thread is joined
A_LoopStop ==
    /\ spawned = MaxThreads /\ ~stopped
    /\ stopped' = TRUE
    /\ UNCHANGED <<spawned, tpc, tval, saved, published, raised, gaugeVars, motorVars,
                   guiVars, saveVars>>

\* process_image lines 50-56: detect_gauge; an exception ends the thread
T_Detect(t) ==
    /\ tpc[t] = "detect"
    /\ \E o \in DetectOutcomes, crop \in {"ok", "corrupt"}, ls \in CropLines :
        /\ o # "gauge" => (crop = "ok" /\ ls = <<>>)
        /\ crop = "corrupt" => ls = <<>>
        /\ IF o = "raises"
           THEN /\ tpc' = [tpc EXCEPT ![t] = "done"]
                /\ UNCHANGED tval
           ELSE /\ tpc' = [tpc EXCEPT ![t] = "save_annotated"]
                /\ tval' = [tval EXCEPT
                      ![t].annotated = IF o = "unreadable" THEN NoImage ELSE "image",
                      ![t].cropped = IF o = "gauge" THEN crop ELSE NoImage,
                      ![t].box = IF o = "gauge" THEN [x |-> 0, y |-> 0, w |-> 1, h |-> 1]
                                 ELSE None,
                      ![t].lines = ls]
    /\ UNCHANGED <<spawned, saved, published, raised, stopped, gaugeVars, motorVars, guiVars,
                   saveVars>>

\* process_image lines 58-79: the annotated image is saved unless it is None
\* or cv2.imwrite fails; without a gauge the result is made
T_SaveAnnotated(t) ==
    /\ tpc[t] = "save_annotated"
    /\ \E fails \in BOOLEAN :
        saved' = IF tval[t].annotated # NoImage /\ ~fails
                 THEN [saved EXCEPT ![t] = @ \cup {"annotated"}] ELSE saved
    /\ IF tval[t].cropped = NoImage \/ tval[t].box = None
       THEN /\ tval' = [tval EXCEPT ![t].result_data =
                            result_data_of(t, tval[t].cropped, tval[t].box, None)]
            /\ tpc' = [tpc EXCEPT ![t] = "publish"]
       ELSE /\ tpc' = [tpc EXCEPT ![t] = "convert"]
            /\ UNCHANGED tval
    /\ UNCHANGED <<spawned, published, raised, stopped, gaugeVars, motorVars, guiVars,
                   saveVars>>

\* process_image lines 82-90: russ_mqtt_one.process_image on the crop
T_Convert(t) ==
    /\ tpc[t] = "convert"
    /\ LET r == russ_process_image(tval[t].cropped, tval[t].lines)
       IN  tval' = [tval EXCEPT ![t].value = r.val,
                                ![t].processed = IF r.img = "image" THEN tval[t].cropped
                                                 ELSE r.img]
    /\ tpc' = [tpc EXCEPT ![t] = "save_processed"]
    /\ UNCHANGED <<spawned, saved, published, raised, stopped, gaugeVars, motorVars, guiVars,
                   saveVars>>

\* process_image lines 92-115: the processed crop is saved unless cv2.imwrite
\* fails; the status and the result are made
T_SaveProcessed(t) ==
    /\ tpc[t] = "save_processed"
    /\ \E fails \in BOOLEAN :
        saved' = IF tval[t].processed # NoImage /\ ~fails
                 THEN [saved EXCEPT ![t] = @ \cup {"processed"}] ELSE saved
    /\ tval' = [tval EXCEPT ![t].result_data =
                    result_data_of(t, tval[t].cropped, tval[t].box, tval[t].value)]
    /\ tpc' = [tpc EXCEPT ![t] = "publish"]
    /\ UNCHANGED <<spawned, published, raised, stopped, gaugeVars, motorVars, guiVars,
                   saveVars>>

\* process_image lines 117-122: the result is published
T_Publish(t) ==
    /\ tpc[t] = "publish"
    /\ published' = Append(published, tval[t].result_data)
    /\ tpc' = [tpc EXCEPT ![t] = "done"]
    /\ UNCHANGED <<spawned, tval, saved, raised, stopped, gaugeVars, motorVars, guiVars,
                   saveVars>>

ThreadStep(t) ==
    \/ T_Detect(t)
    \/ T_SaveAnnotated(t)
    \/ T_Convert(t)
    \/ T_SaveProcessed(t)
    \/ T_Publish(t)

NextApp ==
    \/ A_StartThread
    \/ A_LoopStop
    \/ \E t \in Threads : ThreadStep(t)

SpecApp == Init /\ [][NextApp]_vars

-----------------------------------------------------------------------------
(* SpecGui: old/russ_mqtt_one.py, the Tk loop with its MQTT work order *)

\* The value -1 a frame without any line is given (line 71)
NoLineValue == [num |-> 0 - 1, den |-> 1]

\* process_image returning None for a frame without any line
old_process_image_absent(frame, lines) ==
    IF frame \in {"missing", "unreadable"} \/ lines = <<>> THEN None
    ELSE russ_value(russ_angle_deg(max_line(Tail(lines), Head(lines))))

\* old/russ_mqtt_one.py process_image lines 50-134, the value returned.
\* frame: latest.jpg is "missing", "unreadable" or "ok"; lines = <<>> stands
\* for HoughLinesP returning None.  The mapping of lines 79-102 is that of
\* russ_mqtt_one.py with the same constants.
old_process_image(frame, lines) ==
    IF frame \in {"missing", "unreadable"} THEN None
    ELSE IF lines = <<>> THEN NoLineValue
    ELSE russ_value(russ_angle_deg(max_line(Tail(lines), Head(lines))))

\* What the line search finds in a frame: nothing, a needle reading 11.03,
\* a needle reading 59.56
GuiLines == {<<>>, <<NeedleAt(200, FALSE)>>, <<NeedleAt(90, FALSE)>>}

\* What client.publish does: the message goes out ("sent"), the call raises,
\* or it returns an error code without raising (no connection any more)
PublishOutcomes == {"sent", "raises", "error_code"}

\* update_gui line 147
IsSafe(val) == val.num <= 25 * val.den

\* update_gui line 161: whether a work order is to be published
wants_workorder(connected, sent) == connected /\ ~sent

\* Lines 38-47 and 199-243: the client connects or fails to, the widgets are
\* made and the first update_gui is scheduled
G_Load ==
    /\ gpc = "load"
    /\ \E ok \in BOOLEAN : mqtt_connected' = ok
    /\ gpc' = "run"
    /\ UNCHANGED <<workorder_sent, notify_label, clear_button, events, gaugeVars,
                   motorVars, appVars, saveVars>>

\* update_gui lines 137-178, one tick
G_Tick ==
    /\ gpc = "run" /\ Len(events) < MaxTicks
    /\ \E frame \in {"missing", "unreadable", "ok"}, lines \in GuiLines,
          pub \in PublishOutcomes \cup {"none"} :
        LET val == old_process_image(frame, lines)
            publishes == val # None /\ ~IsSafe(val)
                         /\ wants_workorder(mqtt_connected, workorder_sent)
            sent == IF val = None THEN workorder_sent
                    ELSE IF IsSafe(val) THEN FALSE
                    ELSE IF publishes /\ pub # "raises" THEN TRUE
                    ELSE workorder_sent
        IN  /\ frame # "ok" => lines = <<>>
            /\ (pub # "none") <=> publishes
            /\ workorder_sent' = sent
            /\ notify_label' =
                  IF val = None THEN notify_label
                  ELSE IF IsSafe(val) THEN "Temperature OK"
                  ELSE IF ~publishes THEN "Warning"
                  ELSE IF pub = "raises" THEN "Warning, MQTT publish failed"
                  ELSE "Warning, work order generated"
            /\ clear_button' =
                  IF val = None THEN clear_button
                  ELSE IF IsSafe(val) THEN "disabled" ELSE "normal"
            /\ events' = Append(events,
                  [kind |-> "tick",
                   frame |-> IF frame = "ok" /\ lines = <<>> THEN "no_line" ELSE frame,
                   val |-> val, publish |-> pub,
                   before |-> workorder_sent, after |-> sent])
    /\ UNCHANGED <<gpc, mqtt_connected, gaugeVars, motorVars, appVars, saveVars>>

\* clear_alert lines 181-189: the button, when enabled, is pressed
G_ClearAlert ==
    /\ gpc = "run" /\ Len(events) < MaxTicks
    /\ clear_button = "normal"
    /\ workorder_sent' = FALSE
    /\ notify_label' = "Alerts cleared"
    /\ clear_button' = "disabled"
    /\ events' = Append(events,
          [kind |-> "clear", frame |-> "none", val |-> None, publish |-> "none",
           before |-> workorder_sent, after |-> FALSE])
    /\ UNCHANGED <<gpc, mqtt_connected, gaugeVars, motorVars, appVars, saveVars>>

NextGui ==
    \/ G_Load
    \/ G_Tick
    \/ G_ClearAlert

SpecGui == Init /\ [][NextGui]_vars

-----------------------------------------------------------------------------
(* SpecSave: save_all_photos.py *)

\* get_next_index lines 23-28: the number of JPG files in the directory
get_next_index(photos, other_jpgs) == Cardinality(photos) + other_jpgs

\* first_free without the loop: the index as it is
first_free_unchecked(photos, index) == index

\* Lines 53-60: the index is advanced until photo_<index>.jpg does not exist
RECURSIVE first_free(_, _)
first_free(photos, index) ==
    IF index \in photos THEN first_free(photos, index + 1) ELSE index

\* Lines 46-64: the loop over what is left of new_images (n files); used
\* collects the indices moved to
RECURSIVE save_from(_, _, _, _)
save_from(n, photos, index, used) ==
    IF n = 0 THEN [photos |-> photos, used |-> used, index |-> index]
    ELSE LET i == first_free(photos, index)
         IN  save_from(n - 1, photos \cup {i}, i + 1, Append(used, i))

\* save_new_jpegs_sequentially(source, destination, start_index) with n JPG
\* files in the source directory.  The source is the working directory, never
\* the destination, so the skip of lines 49-51 is not taken.
save_new_jpegs_sequentially(n, photos, start_index) ==
    save_from(n, photos, start_index, <<>>)

\* main line 71: next_index from what meter-photos holds when the script starts
S_Start ==
    /\ spc = "start"
    /\ \E photos \in SUBSET (0..(MaxDest - 1)), o \in 0..1 :
        /\ dest' = photos
        /\ others' = o
        /\ next_index' = get_next_index(photos, o)
    /\ spc' = "capture"
    /\ UNCHANGED <<cwd, calls, lastcall, gaugeVars, motorVars, appVars, guiVars>>

\* main lines 76-83: take_photo_new saves a JPG in the working directory,
\* where another JPG may lie as well
S_Capture ==
    /\ spc = "capture" /\ calls < MaxCalls
    /\ \E k \in 1..2 : cwd' = cwd + k
    /\ spc' = "save"
    /\ UNCHANGED <<dest, others, next_index, calls, lastcall, gaugeVars, motorVars,
                   appVars, guiVars>>

\* main line 86: the JPGs of the working directory are moved
S_Save ==
    /\ spc = "save"
    /\ LET r == save_new_jpegs_sequentially(cwd, dest, next_index)
       IN  /\ dest' = r.photos
           /\ next_index' = r.index
           /\ lastcall' = [before |-> dest, start |-> next_index, used |-> r.used,
                           ret |-> r.index]
    /\ cwd' = 0
    /\ calls' = calls + 1
    /\ spc' = "capture"
    /\ UNCHANGED <<others, gaugeVars, motorVars, appVars, guiVars>>

NextSave ==
    \/ S_Start
    \/ S_Capture
    \/ S_Save

SpecSave == Init /\ [][NextSave]_vars

-----------------------------------------------------------------------------
(* Claims about the reading functions, checked under Spec *)

\* The reading v, given as a rational, equals the integer n
ValueIs(v, n) == v # None /\ v.num = n * v.den

\* The reading v lies in [lo, hi]
ValueWithin(v, lo, hi) == lo * v.den <= v.num /\ v.num <= hi * v.den

\* Line l has both endpoints strictly inside 0.98 r of the centre of dial d
InsideDial(l, d) ==
    /\ d.r > 0
    /\ 2500 * ((l[1] - d.x) * (l[1] - d.x) + (l[2] - d.y) * (l[2] - d.y)) < 2401 * d.r * d.r
    /\ 2500 * ((l[3] - d.x) * (l[3] - d.x) + (l[4] - d.y) * (l[4] - d.y)) < 2401 * d.r * d.r

\* Line l runs between the centre of dial d and a point straight above it
StraightUp(l, d) ==
    \/ l[1] = d.x /\ l[2] = d.y /\ l[3] = d.x /\ l[4] < d.y
    \/ l[3] = d.x /\ l[4] = d.y /\ l[1] = d.x /\ l[2] < d.y

\* C1 (as claimed): every value get_current_value returns, called with the
\* calibration 45/315/0/120, lies within [min_value, max_value].
C1_ValueWithinRange ==
    (fn = "get_current_value" /\ ret # None)
        => ValueWithin(ret, Calibration.min_value, Calibration.max_value)

\* C2: russ_mqtt_one.process_image always returns a pair; its value is None
\* when the image is None, when processing raised or when no line was detected,
\* and otherwise a value rounded to two decimals within [0, 120].
C2_RussValueNoneOrWithinRange ==
    fn = "russ_process_image" =>
        /\ ret.val # None =>
              /\ ret.val.den = 100
              /\ ValueWithin(ret.val, Meter.min_value, Meter.max_value)
        /\ (args.image = NoImage \/ args.image = "corrupt" \/ args.lines = <<>>)
              => ret.val = None
        /\ args.image = NoImage => ret.img = NoImage

\* C2 witness: a needle in the dead zone past max_angle, whose raw value
\* exceeds 120, is reported as exactly 120.
C2_Witness ==
    /\ fn = "russ_process_image" /\ ang = 200
    /\ ret.val # None /\ ValueIs(ret.val, Meter.max_value)

\* C3: with its own calibration each mapper sends min_angle to min_value and
\* max_angle (mod 360) to max_value, exactly.
C3_EndpointsExact ==
    /\ (fn = "angle_to_value" /\ ang = Defaults2.min_angle)
          => ValueIs(ret, Defaults2.min_value)
    /\ (fn = "angle_to_value" /\ ang = Defaults2.max_angle % 360)
          => ValueIs(ret, Defaults2.max_value)
    /\ (fn = "russ_process_image" /\ ang = Meter.min_angle)
          => ValueIs(ret.val, Meter.min_value)
    /\ (fn = "russ_process_image" /\ ang = Meter.max_angle % 360)
          => ValueIs(ret.val, Meter.max_value)
    /\ (fn = "get_current_value" /\ ang = Calibration.min_angle)
          => ValueIs(ret, Calibration.min_value)
    /\ (fn = "get_current_value" /\ ang = Calibration.max_angle % 360)
          => ValueIs(ret, Calibration.max_value)

\* C3 witness: get_current_value met a needle at final_angle 315 and returned 120.
C3_Witness ==
    /\ fn = "get_current_value" /\ ang = 315
    /\ ValueIs(ret, 120)

\* C4 (as claimed): angle_to_value(270) with the calibration 225/-45/0/120 lies
\* strictly between min_value and max_value.
C4_Angle270Partway ==
    (fn = "angle_to_value" /\ ang = 270) =>
        /\ Defaults2.min_value * ret.den < ret.num
        /\ ret.num < Defaults2.max_value * ret.den

\* C6: a needle from the dial centre straight up reads 90 degrees and the
\* value 60 through detect_needle_angle and angle_to_value, and the value 60
\* through get_current_value.
C6_StraightUpReadsMidpoint ==
    /\ ( /\ fn = "analog_to_digital_2"
         /\ args.dial # None /\ Len(args.lines) = 1
         /\ StraightUp(args.lines[1], args.dial)
         /\ ret # [raised |-> "ValueError"] )
          => (ang = 90 /\ ValueIs(ret, 60))
    /\ ( /\ fn = "get_current_value"
         /\ Len(args.lines) = 1
         /\ StraightUp(args.lines[1], args.dial)
         /\ ret # None )
          => ValueIs(ret, 60)

\* C6 witness: get_current_value read 60 from a needle straight up.
C6_Witness ==
    /\ fn = "get_current_value" /\ Len(args.lines) = 1
    /\ StraightUp(args.lines[1], args.dial)
    /\ ValueIs(ret, 60)

SeamAngles == {a \in Angles : a >= 360 - SeamWidth \/ a < SeamWidth}

\* |v.num - w.num| for two readings of the same denominator
NumGap(v, w) == Abs(v.num - w.num)

\* C5 (as claimed): beside the seam, the values of two angles one degree apart
\* differ by no more than one per-degree step, (max_value - min_value) / sweep:
\* 120/270 for angle_to_value, 120/272 for russ_mqtt_one.process_image.
C5_SeamStepBound ==
    /\ (fn = "angle_to_value" /\ ang \in SeamAngles) =>
          NumGap(ret, angle_to_value((ang + 1) % 360, Defaults2.min_angle,
                                     Defaults2.max_angle, Defaults2.min_value,
                                     Defaults2.max_value)) * 270
              <= (Defaults2.max_value - Defaults2.min_value) * ret.den
    /\ (fn = "russ_process_image" /\ ang \in SeamAngles) =>
          NumGap(ret.val, russ_value((ang + 1) % 360)) * 272
              <= (Meter.max_value - Meter.min_value) * ret.val.den

\* C5 (amended): the values for 359 and 0 differ by no more than one
\* per-degree step, and beside the seam the values of two angles one degree
\* apart differ by no more than one per-degree step plus one unit of the
\* rounding of the result (0.1 for angle_to_value, 0.01 for process_image).
C5_SeamStepBoundRounded ==
    /\ (fn = "angle_to_value" /\ ang \in SeamAngles) =>
          LET next == angle_to_value((ang + 1) % 360, Defaults2.min_angle,
                                     Defaults2.max_angle, Defaults2.min_value,
                                     Defaults2.max_value)
          IN  /\ NumGap(ret, next) * 270
                    <= (Defaults2.max_value - Defaults2.min_value) * ret.den + 270
              /\ ang = 359 => NumGap(ret, next) * 270
                    <= (Defaults2.max_value - Defaults2.min_value) * ret.den
    /\ (fn = "russ_process_image" /\ ang \in SeamAngles) =>
          LET next == russ_value((ang + 1) % 360)
          IN  /\ NumGap(ret.val, next) * 272
                    <= (Meter.max_value - Meter.min_value) * ret.val.den + 272
              /\ ang = 359 => NumGap(ret.val, next) * 272
                    <= (Meter.max_value - Meter.min_value) * ret.val.den

\* C5 witness: angle_to_value(359) returned 100.4, one step from the 100.0 of
\* angle 0.
C5_Witness ==
    /\ fn = "angle_to_value" /\ ang = 359
    /\ ret.num = 1004 /\ ret.den = 10

\* The segments of ls in the order given by the permutation p of its indices
Reordered(ls, p) == [i \in 1..Len(ls) |-> ls[p[i]]]

\* C13 (as claimed): get_current_value returns the same value for the same
\* dial, calibration and detected segments in whatever order the detector
\* lists the segments.
C13_SameValueInAnyOrder ==
    (fn = "get_current_value" /\ args.lines # <<>>) =>
        \A p \in Permutations(1..Len(args.lines)) :
            get_current_value(Reordered(args.lines, p),
                              Calibration.min_angle, Calibration.max_angle,
                              Calibration.min_value, Calibration.max_value,
                              args.dial.x, args.dial.y, args.dial.r) = ret

\* C14 (as claimed): for every calibration passed to angle_to_value, the angle
\* min_angle maps to min_value and the angle max_angle to max_value.
C14_ConfiguredEndpoints ==
    fn = "angle_to_value_calibrated" =>
        /\ ang = args.cal.min_angle % 360 => ValueIs(ret, args.cal.min_value)
        /\ ang = args.cal.max_angle % 360 => ValueIs(ret, args.cal.max_value)

\* C15 (as claimed): take_photo returns None whenever connecting to Spot,
\* taking the photo or moving it fails, and a path it returns names the photo
\* taken in this call.
C15_PathOfThisCallOrNone ==
    fn = "take_photo" =>
        /\ (args.connect # "ok" \/ args.shot # "file" \/ args.move # "ok") => ret = None
        /\ ret # None => ret.photo = "new"

\* The YOLO result holds no gauge: no result, no masks, or no contour of
\* positive area
NoGauge(results) ==
    \/ results.kind \in {"empty", "no_masks", "zero_masks"}
    \/ /\ results.kind = "masks"
       /\ \A i \in 1..Len(results.contours) : results.contours[i].area <= 0

\* C16: detect_gauge returns (original image, None, None) whenever no gauge is
\* detected, and every triple it returns has the cropped image and the box
\* both None or both not None.
C16_NoGaugeTriple ==
    (fn = "detect_gauge" /\ ret # [raised |-> "Exception"]) =>
        /\ (args.readable /\ NoGauge(args.results)) =>
              ret = [annotated |-> "image", cropped |-> NoImage, box |-> None]
        /\ (ret.cropped = NoImage) <=> (ret.box = None)

\* C16 witness: the only mask contour has no area, and the original image is
\* returned without crop and box.
C16_Witness ==
    /\ fn = "detect_gauge" /\ args.readable
    /\ args.results.kind = "masks"
    /\ \A i \in 1..Len(args.results.contours) : args.results.contours[i].area = 0
    /\ ret = [annotated |-> "image", cropped |-> NoImage, box |-> None]

\* The needle get_current_value settled on in the call recorded in args
NeedleOfCall == selected_needle(args.lines, args.dial.x, args.dial.y, args.dial.r)

\* C17: the needle get_current_value selects has both endpoints strictly
\* within 0.98 r of the dial centre; a line with an endpoint at 0.98 r or
\* beyond is never selected, however long it is.
C17_NeedleInsideDial ==
    fn = "get_current_value" =>
        /\ (ret # None) <=> (NeedleOfCall # NoLine)
        /\ NeedleOfCall # NoLine => InsideDial(NeedleOfCall, args.dial)

\* C17 witness: the longest detected line ends exactly at 0.98 r; the shorter
\* needle straight up is selected and 60 is read.
C17_Witness ==
    /\ fn = "get_current_value" /\ args.dial.r = 200
    /\ args.lines = <<Seg(0, 0, 196, 0), Seg(0, 0, 0, 0 - 100)>>
    /\ ValueIs(ret, 60)

\* Indices of the detected lines of the call that lie inside the dial margin
CandidateIndices == {i \in 1..Len(args.lines) : InsideDial(args.lines[i], args.dial)}

FarVectors(l, x, y) ==
    LET d1 == (l[1] - x) * (l[1] - x) + (l[2] - y) * (l[2] - y)
        d2 == (l[3] - x) * (l[3] - x) + (l[4] - y) * (l[4] - y)
    IN  (IF d1 >= d2 THEN {<<l[1] - x, y - l[2]>>} ELSE {})
        \cup (IF d2 >= d1 THEN {<<l[3] - x, y - l[4]>>} ELSE {})

\* C19: in each variant the needle angle is computed from the vector
\* (far.x - center.x, center.y - far.y) of the needle endpoint farther from
\* the centre, never from the nearer endpoint.
C19_AngleFromFarEndpoint ==
    /\ (fn = "get_current_value" /\ ret # None) =>
          \E v \in FarVectors(NeedleOfCall, args.dial.x, args.dial.y) :
              ang = (270 - Atan2Deg(v[2], v[1])) % 360
    /\ (fn = "analog_to_digital_2" /\ ret # [raised |-> "ValueError"]) =>
          \E v \in FarVectors(needle_from(args.lines, args.dial.x, args.dial.y,
                                           args.dial.r, NoLine, 0),
                               args.dial.x, args.dial.y) :
              ang = (Atan2Deg(v[2], v[1]) + 360) % 360
    /\ (fn = "russ_process_image" /\ ret.val # None) =>
          \E v \in FarVectors(max_line(Tail(args.lines), Head(args.lines)),
                               image_size \div 2, image_size \div 2) :
              ang = (90 - Atan2Deg(v[2], v[1])) % 360

\* C19 witness: detect_needle_angle met a needle to the left whose first
\* endpoint is the far one, and computed 180 degrees.
C19_Witness ==
    /\ fn = "analog_to_digital_2" /\ args.dial # None
    /\ args.lines = <<NeedleAt(180, TRUE)>>
    /\ ang = 180

\* C20: the needle angle every variant hands to its value mapping lies in
\* [0, 360).
C20_AngleNormalized ==
    /\ (fn = "get_current_value" /\ ret # None) => (0 <= ang /\ ang < 360)
    /\ (fn = "analog_to_digital_2" /\ ret # [raised |-> "ValueError"])
          => (0 <= ang /\ ang < 360)
    /\ (fn = "russ_process_image" /\ ret.val # None) => (0 <= ang /\ ang < 360)

\* C20 witness: detect_needle_angle met a needle straight down, for which
\* atan2 gives -90 degrees, and computed 270.
C20_Witness ==
    /\ fn = "analog_to_digital_2" /\ args.dial # None
    /\ args.lines = <<NeedleAt(270, FALSE)>>
    /\ ang = 270

\* C21: the needle get_current_value selects has two distinct endpoints,
\* whatever the dial radius, zero and negative radii included.
C21_NeedleEndpointsDistinct ==
    /\ (fn = "selected_needle" /\ ret.needle # NoLine) =>
          (ret.needle[1] # ret.needle[3] \/ ret.needle[2] # ret.needle[4])
    /\ (fn = "get_current_value" /\ NeedleOfCall # NoLine) =>
          (NeedleOfCall[1] # NeedleOfCall[3] \/ NeedleOfCall[2] # NeedleOfCall[4])

\* C21 witness: the only line is a point at the centre of a dial of radius 1,
\* a candidate of length 0, and no needle is selected.
C21_Witness ==
    /\ fn = "selected_needle" /\ args.dial.r = 1
    /\ args.lines = <<Seg(0, 0, 0, 0)>>
    /\ ret.needle = NoLine

\* Field f of the detected circles of the call, in tenths of a pixel
Detected(f) == {args.circles[i][f] : i \in 1..Len(args.circles)}

\* v whole pixels is the mean of field f over all detected circles, rounded
\* down to a whole pixel
IsTruncatedMean(v, f) ==
    LET b == Len(args.circles)
        total == circle_sum(args.circles, b, f)
    IN  10 * b * v <= total /\ total < 10 * b * (v + 1)

\* C22 (as claimed): each of x, y and r of the dial is the mean over all
\* detected circles truncated to an integer, and lies between the minimum and
\* the maximum of the detected values.
C22_AverageWithinDetected ==
    fn = "avg_circles" =>
        \A f \in {"x", "y", "r"} :
            /\ IsTruncatedMean(ret[f], f)
            /\ \A m \in Detected(f) : (\A o \in Detected(f) : m <= o) => m <= 10 * ret[f]
            /\ \A m \in Detected(f) : (\A o \in Detected(f) : m >= o) => 10 * ret[f] <= m

\* C22 (amended): each of x, y and r of the dial is the mean over all
\* detected circles truncated to an integer; it is no greater than the
\* maximum of the detected values and less than one pixel below their minimum.
C22_AverageWithinDetectedTruncated ==
    fn = "avg_circles" =>
        \A f \in {"x", "y", "r"} :
            /\ IsTruncatedMean(ret[f], f)
            /\ \A m \in Detected(f) : (\A o \in Detected(f) : m <= o) => m - 10 < 10 * ret[f]
            /\ \A m \in Detected(f) : (\A o \in Detected(f) : m >= o) => 10 * ret[f] <= m

\* C22 witness: two circles of radius 200.0 and 123.4 give the radius 161.
C22_Witness ==
    /\ fn = "avg_circles" /\ Len(args.circles) = 2
    /\ args.circles[1].r = 2000 /\ args.circles[2].r = 1234
    /\ ret.r = 161

\* C12: function_with_timeout returns what func returned when func ended in
\* time without raising; it returns None when func is still running at the
\* timeout and when func raised an Exception; it never hands an exception of
\* func to its caller.
C12_TimeoutResult ==
    fn = "function_with_timeout" =>
        /\ (~args.alive /\ args.func.kind = "returns") => ret = args.func.value
        /\ (args.alive \/ args.func.kind = "raises") => ret = None
        /\ ret \in {None} \cup {f.value : f \in FuncOutcomes}

\* C12 witness: func returned 60 in time and function_with_timeout returned 60.
C12_Witness ==
    /\ fn = "function_with_timeout"
    /\ ~args.alive /\ args.func.kind = "returns"
    /\ ValueIs(ret, 60)

-----------------------------------------------------------------------------
(* Claims about convert and the capture loop, checked under SpecMotor *)

\* C7: when the circle search finds nothing, convert neither calls
\* get_current_value nor writes MyFile.txt, and it returns without an exception.
C7_NoDialEndsRunQuietly ==
    \A t \in Runs :
        t \in nodial =>
            /\ cpc[t] = "done"
            /\ t \notin called
            /\ "MyFile.txt" \notin written[t]
            /\ cres[t].exception = None

\* C7 witness: a run that found no circle has returned.
C7_Witness ==
    \E t \in Runs :
        /\ t \in nodial /\ cpc[t] = "done"
        /\ t \notin called /\ "MyFile.txt" \notin written[t]

\* C10 (as claimed): no two convert runs are active at the same time having
\* both read or written the same file under images/.
C10_NoFileSharedByActiveRuns ==
    \A t1 \in Runs, t2 \in Runs :
        (t1 # t2 /\ Active(t1) /\ Active(t2)) => touched[t1] \cap touched[t2] = {}

-----------------------------------------------------------------------------
(* Claims about app.process_image, checked under SpecApp *)

\* The messages thread t has published
MessagesOf(t) == SelectSeq(published, LAMBDA m : m.thread = t)

\* C9 (as claimed): every process_image thread ends without an exception
\* leaving it, having published exactly one result, whose value is "N/A" when
\* no reading was obtained.
C9_EveryThreadPublishesOneResult ==
    \A t \in Threads :
        tpc[t] = "done" =>
            /\ t \notin raised
            /\ Len(MessagesOf(t)) = 1
            /\ tval[t].value = None => MessagesOf(t)[1].value = NA

\* C11 (as claimed): a convert run that was still running when
\* function_with_timeout gave up on it (and returned None) writes no file
\* afterwards.
C11_NoWriteAfterTimeout ==
    [][\A t \in timedout : written'[t] = written[t]]_vars

\* The run found a dial and a needle: get_current_value gave it a reading
FoundReading(t) == t \notin nodial /\ gotval[t] # None

\* C27: convert writes images/MyFile.txt exactly when it found both a dial and
\* a needle.  A finished run has written the file if and only if it got a
\* reading, no run writes it without one, the file only ever holds the reading
\* of a run that wrote it, and every step that changes the file is the write
\* of a run that got a reading; all other steps, those of failing runs
\* included, leave it as it was.
C27_MyFileWrittenIffReading ==
    /\ [](\A t \in Runs :
            /\ "MyFile.txt" \in written[t] => FoundReading(t)
            /\ cpc[t] = "done" => (FoundReading(t) <=> "MyFile.txt" \in written[t]))
    /\ [](files.myfile = None
            \/ \E t \in Runs : "MyFile.txt" \in written[t] /\ files.myfile = gotval[t])
    /\ [][files.myfile' # files.myfile =>
            \E t \in Runs : /\ cpc[t] = "write_myfile" /\ cpc'[t] = "done"
                             /\ FoundReading(t)
                             /\ files.myfile' = gotval[t]]_vars

\* C27 witness: run 1 wrote its reading, run 2 found a dial but no needle and
\* is done, and the file still holds the reading of run 1.
C27_Witness ==
    /\ cpc[1] = "done" /\ "MyFile.txt" \in written[1]
    /\ cpc[2] = "done" /\ 2 \in called /\ gotval[2] = None
    /\ files.myfile = gotval[1]

\* C28 (as claimed): a run that ended within the timeout and got a reading is
\* reported with that reading as its "Meter reading".
C28_ReportedIsReading ==
    \A i \in 1..Len(reported) :
        LET r == reported[i]
        IN  (r.run \notin timedout /\ FoundReading(r.run)) => r.value = gotval[r.run]

\* C25 (as claimed): in test mode every process_image thread has made its
\* publish call before app.main executes mqtt_client.loop_stop(): nothing is
\* published once loop_stop has run.
C25_PublishBeforeLoopStop ==
    [][stopped => published' = published]_vars

\* C26: each published result agrees with what the thread found.  Without a
\* crop or a box: "Gauge not detected.", value "N/A", no crop URL, no box.
\* With both: "Could not read value from gauge." and "N/A" exactly for an
\* absent value, ALERT exactly for a value above 35, OK exactly for a value
\* present and at most 35.
C26_ResultMatchesReading ==
    \A i \in 1..Len(published) :
        LET m == published[i]
            l == tval[m.thread]
            nogauge == l.cropped = NoImage \/ l.box = None
        IN  /\ (m.status = "Gauge not detected.") <=> nogauge
            /\ nogauge => /\ m.value = NA
                          /\ ~m.crop_image_url
                          /\ m.detection_box = None
            /\ ~nogauge =>
                  /\ (m.status = "Could not read value from gauge.") <=> (l.value = None)
                  /\ (m.value = NA) <=> (l.value = None)
                  /\ l.value # None => m.value = l.value
                  /\ (m.status = "ALERT") <=>
                        (l.value # None /\ l.value.num > 35 * l.value.den)
                  /\ (m.status = "OK") <=>
                        (l.value # None /\ l.value.num <= 35 * l.value.den)
                  /\ m.crop_image_url
                  /\ m.detection_box = l.box

\* C26 witness: an ALERT has been published for the reading 59.56.
C26_Witness ==
    \E i \in 1..Len(published) :
        /\ published[i].status = "ALERT"
        /\ published[i].value = [num |-> 5956, den |-> 100]

-----------------------------------------------------------------------------
(* Claims about old/russ_mqtt_one.py, checked under SpecGui *)

\* Event i is a tick whose value is present and at most 25
SafeTick(i) ==
    events[i].kind = "tick" /\ events[i].val # None /\ IsSafe(events[i].val)

\* C23 (as claimed): with no clear_alert press in between, after a published
\* work order no further one is published before a tick with a value <= 25;
\* a tick without an image leaves workorder_sent as it was; a failed publish
\* and a disconnected client never set workorder_sent.
C23_OneWorkorderPerCrossing ==
    /\ \A i \in 1..Len(events), j \in 1..Len(events) :
          ( /\ i < j
            /\ events[i].publish = "sent" /\ events[j].publish = "sent"
            /\ \A k \in (i + 1)..(j - 1) : events[k].kind # "clear" )
          => \E k \in (i + 1)..(j - 1) : SafeTick(k)
    /\ \A i \in 1..Len(events) :
          (events[i].kind = "tick" /\ events[i].val = None)
              => events[i].after = events[i].before
    /\ \A i \in 1..Len(events) :
          (events[i].publish \in {"raises", "error_code"} \/ ~mqtt_connected)
              => ~(events[i].after /\ ~events[i].before)

\* C29: a frame without any line gives the value -1, and update_gui treats it
\* as a safe reading: "Temperature OK" is shown, workorder_sent is reset and
\* the clear button disabled, so that the next reading above 25 has a work
\* order published again (with a connected client).
C29_NoLineCountsAsSafe ==
    /\ \A i \in 1..Len(events) :
          events[i].frame = "no_line" =>
              /\ events[i].val = NoLineValue
              /\ ~events[i].after
              /\ (i < Len(events) /\ events[i + 1].kind = "tick"
                    /\ events[i + 1].val # None /\ ~IsSafe(events[i + 1].val)
                    /\ mqtt_connected)
                  => events[i + 1].publish # "none"
    /\ (events # <<>> /\ events[Len(events)].frame = "no_line") =>
          /\ notify_label = "Temperature OK"
          /\ ~workorder_sent
          /\ clear_button = "disabled"

\* C29 witness: a reading above 25, a frame without a line and another
\* reading above 25, with a work order sent at the first and at the third.
C29_Witness ==
    /\ Len(events) = 3
    /\ events[1].publish = "sent"
    /\ events[2].frame = "no_line"
    /\ events[3].publish = "sent" /\ ~IsSafe(events[3].val)

-----------------------------------------------------------------------------
(* Claims about save_all_photos.py, checked under SpecSave *)

\* C24: save_new_jpegs_sequentially moves each JPG to an index whose file did
\* not exist at the moment of the move and removes no file of the
\* destination; the indices used in a call are strictly increasing and the
\* index returned is greater than each of them.
C24_NeverOverwrites ==
    lastcall # None =>
        /\ \A i \in 1..Len(lastcall.used) :
              /\ lastcall.used[i] \notin lastcall.before
              /\ \A j \in 1..(i - 1) : lastcall.used[j] < lastcall.used[i]
              /\ lastcall.used[i] < lastcall.ret
        /\ lastcall.before \subseteq dest
        /\ Cardinality(dest) = Cardinality(lastcall.before) + Len(lastcall.used)

\* C24 witness: the start index was taken in the destination (a gap in the
\* numbering made the count fall on an existing file) and another was used.
C24_Witness ==
    /\ lastcall # None
    /\ lastcall.start \in lastcall.before
    /\ Len(lastcall.used) >= 1
    /\ lastcall.used[1] > lastcall.start

====
